---- MODULE Spec2Model ----
(***************************************************************************)
(* A model of co2_lcd.py: the register codec of the gas sensor driver      *)
(* (CO2MeterWrapper.get_field / set_field), the serial transport           *)
(* (SpiWrapper), the display driver (LcdWrapper) and the sensor session    *)
(* (CO2MeterWrapper, CO2Widget), the widget tree (RectWidget, TextLabel,   *)
(* CO2Widget) and the start-up and cleanup of the program (__main__).      *)
(***************************************************************************)
EXTENDS Integers, Sequences, FiniteSets, TLC

VARIABLES
    \* register codec: the last call of get_field / set_field
    cOp,        \* "none", "set_field" or "get_field"
    cRegval,    \* its regval argument
    cField,     \* its field argument, <<high bit, low bit>>
    cFieldval,  \* its fieldval argument (set_field)
    cOut        \* its outcome: [raised |-> BOOLEAN, val |-> Nat]

VARIABLES
    \* serial transport (SpiWrapper) and the bus behind it
    spiPc,      \* where the caller is: "idle", or blocked in a transport call
    spiCur,     \* the call being executed
    dcPin,      \* level of the data/command pin
    spiXfer,    \* bytes handed to the transport, not yet transferred
    spiBus,     \* every byte the bus has carried, in order
    spiCalls,   \* the calls in submission order
    spiDone     \* the calls that have returned, with their results

VARIABLES
    \* display driver (LcdWrapper): the last operation called on it
    lcdInvert,  \* the _invert attribute
    lcdOp,      \* "none", "init", "fill_rectangle" or "image"
    lcdArgs,    \* the arguments of the operation
    lcdLog,     \* the writes it made on the serial transport and its delays
    lcdRaised   \* the exception it ended with, "" when it returned

VARIABLES
    \* sensor driver (CO2MeterWrapper): the last operation called on it
    mOp,        \* "none" or the operation
    mArg,       \* its argument
    mLog,       \* its reads, writes and delays on the sensor bus
    mRaised     \* the exception it ended with, "" when it returned

VARIABLES
    \* the sensor session of the program (CO2MeterWrapper, CO2Widget)
    sState,     \* "new", "reset", "measuring" or "failed"
    sRaised,    \* the exception that ended the session, "" when none
    i2cLog,     \* every read, write and delay on the sensor bus, in order
    eco2,       \* CO2Widget._eco2
    tvoc,       \* CO2Widget._tvoc
    text,       \* CO2Widget.text
    blits,      \* the texts CO2Widget.draw has blitted, in order
    polls       \* the draws of the widget so far

VARIABLES
    \* the widget tree (RectWidget, TextLabel, CO2Widget)
    nodes,      \* the widgets whose RectWidget.__init__ has completed, in
                \* the order of their construction; a widget is named by
                \* its position in this sequence
    draws,      \* one record for each draw() called on the root
    tMutated,   \* a widget was constructed or a text assigned since the
                \* last draw of the root
    tLast       \* the last operation on the tree and its outcome

VARIABLES
    \* the program, __main__
    pc,         \* the statement the program is at
    bound,      \* the names of __main__ that have been assigned
    statusLed,  \* level of the status pin, "unset" before its set-up
    spiOpen,    \* the display bus handle is open
    i2cOpen,    \* the sensor bus handle is open
    gpioSetup,  \* GPIO has been set up and not cleaned up since
    frames,     \* the frames drawn by the loop
    exc         \* the exception being propagated, "" when none

codecVars == <<cOp, cRegval, cField, cFieldval, cOut>>
spiVars == <<spiPc, spiCur, dcPin, spiXfer, spiBus, spiCalls, spiDone>>

lcdVars == <<lcdInvert, lcdOp, lcdArgs, lcdLog, lcdRaised>>
meterVars == <<mOp, mArg, mLog, mRaised>>
sessionVars == <<sState, sRaised, i2cLog, eco2, tvoc, text, blits, polls>>
treeVars == <<nodes, draws, tMutated, tLast>>
mainVars == <<pc, bound, statusLed, spiOpen, i2cOpen, gpioSetup, frames, exc>>

vars == <<codecVars, spiVars, lcdVars, meterVars, sessionVars, treeVars, mainVars>>

\* what the operations of one component leave alone
codecOthers == <<spiVars, lcdVars, meterVars, sessionVars, treeVars, mainVars>>
spiOthers == <<codecVars, lcdVars, meterVars, sessionVars, treeVars, mainVars>>
lcdOthers == <<codecVars, spiVars, meterVars, sessionVars, treeVars, mainVars>>
meterOthers == <<codecVars, spiVars, lcdVars, sessionVars, treeVars, mainVars>>
sessionOthers == <<codecVars, spiVars, lcdVars, meterVars, treeVars, mainVars>>
treeOthers == <<codecVars, spiVars, lcdVars, meterVars, sessionVars, mainVars>>
mainOthers == <<codecVars, spiVars, lcdVars, meterVars, sessionVars, treeVars>>

(***************************************************************************)
(* Python's integer operators on non-negative integers.                    *)
(***************************************************************************)
RECURSIVE Pow2(_)
Pow2(n) == IF n <= 0 THEN 1 ELSE 2 * Pow2(n - 1)

\* a << n
Shl(a, n) == a * Pow2(n)

\* a >> n
Shr(a, n) == a \div Pow2(n)

RECURSIVE BitAnd(_, _)
BitAnd(a, b) ==
    IF a = 0 \/ b = 0 THEN 0
    ELSE (IF a % 2 = 1 /\ b % 2 = 1 THEN 1 ELSE 0) + 2 * BitAnd(a \div 2, b \div 2)

RECURSIVE BitOr(_, _)
BitOr(a, b) ==
    IF a = 0 THEN b
    ELSE IF b = 0 THEN a
    ELSE (IF a % 2 = 1 \/ b % 2 = 1 THEN 1 ELSE 0) + 2 * BitOr(a \div 2, b \div 2)

\* bit i of a
Bit(a, i) == Shr(a, i) % 2

\* int(math.log2(v)) for v >= 1
RECURSIVE IntLog2(_)
IntLog2(v) == IF v <= 1 THEN 0 ELSE 1 + IntLog2(v \div 2)

(***************************************************************************)
(* The register codec.                                                     *)
(***************************************************************************)
\* the width of the sensor's registers, in bits
RegBits == 8

RegVals == 0 .. (Pow2(RegBits) - 1)

\* the field descriptors (high bit, low bit) of a register
Fields == { <<hi, lo>> \in (0 .. RegBits - 1) \X (0 .. RegBits - 1) : hi >= lo }

FieldWidth(field) == 1 + field[1] - field[2]

\* a mask of the field's lowest bit only
FieldMaskOneBit(field) == Shl(1, field[2])

FieldMask(field) == Shl(Shl(1, FieldWidth(field)) - 1, field[2])

\* get_field without the shift to bit 0
get_field_unshifted(regval, field) == BitAnd(regval, FieldMask(field))

get_field(regval, field) == Shr(BitAnd(regval, FieldMask(field)), field[2])

\* the assert of set_field: a non-zero fieldval must fit the field's width
SetFieldAssert(field, fieldval) ==
    fieldval = 0 \/ IntLog2(fieldval) + 1 <= FieldWidth(field)

\* regval |= mask; regval &= (fieldval << low) & mask
SetFieldValue(regval, field, fieldval) ==
    BitAnd(BitOr(regval, FieldMask(field)),
           BitAnd(Shl(fieldval, field[2]), FieldMask(field)))

set_field(regval, field, fieldval) ==
    IF SetFieldAssert(field, fieldval)
    THEN [raised |-> FALSE, val |-> SetFieldValue(regval, field, fieldval)]
    ELSE [raised |-> TRUE, val |-> regval]

\* the field values tried on a field: every representable one, and the
\* first ones that need more bits
FieldValsTried(field) == 0 .. (Pow2(FieldWidth(field)) + 1)

CodecInit ==
    /\ cOp = "none"
    /\ cRegval = 0
    /\ cField = <<0, 0>>
    /\ cFieldval = 0
    /\ cOut = [raised |-> FALSE, val |-> 0]

CallSetField ==
    /\ cOp = "none"
    /\ \E regval \in RegVals, field \in Fields :
         \E fieldval \in FieldValsTried(field) :
            /\ cOp' = "set_field"
            /\ cRegval' = regval
            /\ cField' = field
            /\ cFieldval' = fieldval
            /\ cOut' = set_field(regval, field, fieldval)
    /\ UNCHANGED codecOthers

CallGetField ==
    /\ cOp = "none"
    /\ \E regval \in RegVals, field \in Fields :
            /\ cOp' = "get_field"
            /\ cRegval' = regval
            /\ cField' = field
            /\ cFieldval' = 0
            /\ cOut' = [raised |-> FALSE, val |-> get_field(regval, field)]
    /\ UNCHANGED codecOthers

(***************************************************************************)
(* The serial transport, SpiWrapper.  writebytes and xfer2 of the bus      *)
(* device block their caller until the bytes are transferred: the caller   *)
(* waits at spiPc until the transport completes the pending transfer.      *)
(***************************************************************************)
\* calls one caller submits
MaxCalls == 3
\* largest byte count of a read
MaxCount == 2

\* command=None
NoCommand == -1
\* data=None
NoData == <<-1>>

SpiCommands == {NoCommand, 44}
SpiDatas == {NoData, <<17>>, <<17, 34>>}
SpiCounts == 0 .. MaxCount
\* the bytes a device may answer
AnswerBytes == {0, 129}

RECURSIVE SeqsOfLen(_, _)
SeqsOfLen(S, n) ==
    IF n = 0 THEN {<<>>}
    ELSE { Append(q, b) : q \in SeqsOfLen(S, n - 1), b \in S }

\* bytes(count)
Zeros(n) == [i \in 1 .. n |-> 0]

\* the bus events of one transfer: byte out[i] is sent and inp[i] received,
\* at the pin level dc
BusEvents(id, kind, dc, out, inp) ==
    [i \in 1 .. Len(out) |->
        [id |-> id, kind |-> kind, dc |-> dc, out |-> out[i], inp |-> inp[i]]]

SpiInit ==
    /\ spiPc = "idle"
    /\ spiCur = [id |-> 0, op |-> "none", command |-> NoCommand,
                 data |-> NoData, count |-> 0]
    /\ dcPin = 0
    /\ spiXfer = <<>>
    /\ spiBus = <<>>
    /\ spiCalls = <<>>
    /\ spiDone = <<>>

\* a transport that drives the pin high for the command and low for the data
DcLevelSwapped(kind) == IF kind = "cmd" THEN 1 ELSE 0

\* the level write and read give the data/command pin before they hand the
\* command byte ("cmd") or the data bytes ("data") to the bus
DcLevel(kind) == IF kind = "cmd" THEN 0 ELSE 1

SpiReturn(call, result) ==
    /\ spiPc' = "idle"
    /\ spiXfer' = <<>>
    /\ spiDone' = Append(spiDone, [id |-> call.id, op |-> call.op, result |-> result])

\* the first thing write does with its arguments
WritePhaseDataOnly(command, data) ==
    IF data # NoData THEN "w_data" ELSE "return"

WritePhase(command, data) ==
    IF command # NoCommand THEN "w_cmd"
    ELSE IF data # NoData THEN "w_data"
    ELSE "return"

\* what write does once its command byte is out
WriteNoData(data) == "return"

WriteAfterCommand(data) ==
    IF data # NoData THEN "w_data" ELSE "return"

\* SpiWrapper.write is entered
SpiWriteCall(command, data) ==
    /\ spiPc = "idle"
    /\ Len(spiCalls) < MaxCalls
    /\ LET call == [id |-> Len(spiCalls) + 1, op |-> "write", command |-> command,
                    data |-> data, count |-> 0]
           phase == WritePhase(command, data)
       IN  /\ spiCalls' = Append(spiCalls, call)
           /\ spiCur' = call
           /\ CASE phase = "w_cmd" ->
                     /\ dcPin' = DcLevel("cmd")
                     /\ spiXfer' = <<command>>
                     /\ spiPc' = "w_cmd"
                     /\ UNCHANGED spiDone
                [] phase = "w_data" ->
                     /\ dcPin' = DcLevel("data")
                     /\ spiXfer' = data
                     /\ spiPc' = "w_data"
                     /\ UNCHANGED spiDone
                [] OTHER ->
                     /\ UNCHANGED dcPin
                     /\ SpiReturn(call, <<>>)
    /\ UNCHANGED <<spiBus, spiOthers>>

\* writebytes(bytearray([command])) of write completes
SpiWriteCommandSent ==
    /\ spiPc = "w_cmd"
    /\ spiBus' = spiBus \o BusEvents(spiCur.id, "cmd", dcPin, spiXfer, spiXfer)
    /\ IF WriteAfterCommand(spiCur.data) = "w_data"
       THEN /\ dcPin' = DcLevel("data")
            /\ spiXfer' = spiCur.data
            /\ spiPc' = "w_data"
            /\ UNCHANGED spiDone
       ELSE /\ UNCHANGED dcPin
            /\ SpiReturn(spiCur, <<>>)
    /\ UNCHANGED <<spiCur, spiCalls, spiOthers>>

\* writebytes(data) of write completes
SpiWriteDataSent ==
    /\ spiPc = "w_data"
    /\ spiBus' = spiBus \o BusEvents(spiCur.id, "data", dcPin, spiXfer, spiXfer)
    /\ SpiReturn(spiCur, <<>>)
    /\ UNCHANGED <<spiCur, dcPin, spiCalls, spiOthers>>

\* SpiWrapper.read is entered
SpiReadCall(command, count) ==
    /\ spiPc = "idle"
    /\ Len(spiCalls) < MaxCalls
    /\ LET call == [id |-> Len(spiCalls) + 1, op |-> "read", command |-> command,
                    data |-> NoData, count |-> count]
       IN  /\ spiCalls' = Append(spiCalls, call)
           /\ spiCur' = call
           /\ IF command # NoCommand
              THEN /\ dcPin' = DcLevel("cmd")
                   /\ spiXfer' = <<command>>
                   /\ spiPc' = "r_cmd"
              ELSE /\ dcPin' = DcLevel("data")
                   /\ spiXfer' = Zeros(count)
                   /\ spiPc' = "r_xfer"
    /\ UNCHANGED <<spiBus, spiDone, spiOthers>>

\* writebytes(bytearray([command])) of read completes
SpiReadCommandSent ==
    /\ spiPc = "r_cmd"
    /\ spiBus' = spiBus \o BusEvents(spiCur.id, "cmd", dcPin, spiXfer, spiXfer)
    /\ dcPin' = DcLevel("data")
    /\ spiXfer' = Zeros(spiCur.count)
    /\ spiPc' = "r_xfer"
    /\ UNCHANGED <<spiCur, spiCalls, spiDone, spiOthers>>

\* a read that gives up on the bus: it returns its bytearray(count)
SpiReadTimesOut ==
    /\ spiPc = "r_xfer"
    /\ SpiReturn(spiCur, Zeros(spiCur.count))
    /\ UNCHANGED <<spiBus, spiCur, dcPin, spiCalls, spiOthers>>

\* xfer2(bytes(count)) completes with the device's answer, and read returns it
SpiXfer2Done ==
    /\ spiPc = "r_xfer"
    /\ \E answer \in SeqsOfLen(AnswerBytes, spiCur.count) :
         /\ spiBus' = spiBus \o BusEvents(spiCur.id, "read", dcPin, spiXfer, answer)
         /\ SpiReturn(spiCur, answer)
    /\ UNCHANGED <<spiCur, dcPin, spiCalls, spiOthers>>

\* the steps the calling thread takes by itself
SpiCaller ==
    \/ \E command \in SpiCommands, data \in SpiDatas : SpiWriteCall(command, data)
    \/ \E command \in SpiCommands, count \in SpiCounts : SpiReadCall(command, count)

\* the steps that wait for the bus
SpiTransport ==
    \/ SpiWriteCommandSent
    \/ SpiWriteDataSent
    \/ SpiReadCommandSent
    \/ SpiXfer2Done

(***************************************************************************)
(* The display driver, LcdWrapper.  Each operation is recorded with the    *)
(* calls it makes on the serial transport, in order: write(command, data)  *)
(* and time.sleep.                                                         *)
(***************************************************************************)
\* the panel the driver is constructed for
PanelWidth == 17
PanelHeight == 16

SWRESET == 1
SLPOUT == 17
NORON == 19
INVOFF == 32
INVON == 33
DISPON == 41
CASET == 42
RASET == 43
RAMWR == 44
COLMOD == 58
MADCTL == 54
FRMCTR1 == 177
FRMCTR2 == 178
FRMCTR3 == 179
INVCTR == 180
PWCTR1 == 192
PWCTR2 == 193
PWCTR3 == 194
PWCTR4 == 195
PWCTR5 == 196
VMCTR1 == 197
GMCTRP1 == 224
GMCTRN1 == 225

BUFFER_SIZE == 256
X_START == 0
Y_START == 0
OffsetLeft == 0
OffsetTop == 0

Min(a, b) == IF a < b THEN a ELSE b
Max(a, b) == IF a > b THEN a ELSE b

\* a bytes value: unit repeated reps times (Python's unit * reps); None is
\* not a bytes value
Bytes(unit) == [none |-> FALSE, unit |-> unit, reps |-> 1]
Repeat(unit, reps) == [none |-> FALSE, unit |-> unit, reps |-> reps]
NoBytes == [none |-> TRUE, unit |-> <<>>, reps |-> 0]
ByteLen(b) == Len(b.unit) * b.reps

\* struct.pack of one big-endian unsigned integer of n bytes
RECURSIVE PackBE(_, _)
PackBE(n, v) == IF n = 0 THEN <<>> ELSE Append(PackBE(n - 1, v \div 256), v % 256)

\* struct.pack accepts v for an unsigned format of n bytes
PackFits(n, v) == 0 <= v /\ v < Pow2(8 * n)

\* str(n).encode() for n >= 0: the ASCII decimal digits of n
RECURSIVE StrEncode(_)
StrEncode(n) ==
    IF n < 10 THEN <<48 + n>> ELSE Append(StrEncode(n \div 10), 48 + (n % 10))

\* _encode_pos: struct.pack(">HH", x, y)
encode_pos(x, y) == PackBE(2, x) \o PackBE(2, y)
encode_pos_fits(x, y) == PackFits(2, x) /\ PackFits(2, y)

\* _encode_pixel: struct.pack(">I", color)
encode_pixel(color) == PackBE(4, color)

\* self._spi.write(command, data)
W(command, data) == [ev |-> "write", command |-> command, data |-> data, ms |-> 0]
\* time.sleep
Sleep(ms) == [ev |-> "sleep", command |-> NoCommand, data |-> NoBytes, ms |-> ms]

\* LcdWrapper.init
init_log(invert) ==
    << W(SWRESET, NoBytes), Sleep(150),
       W(SLPOUT, NoBytes), Sleep(500),
       W(FRMCTR1, Bytes(<<1, 44, 45>>)),
       W(FRMCTR2, Bytes(<<1, 44, 45>>)),
       W(FRMCTR3, NoBytes),
       W(NoCommand, Bytes(<<1, 44, 45>>)),
       W(NoCommand, Bytes(<<1, 44, 45>>)),
       W(INVCTR, NoBytes),
       W(NoCommand, Bytes(<<7>>)),
       W(PWCTR1, NoBytes),
       W(NoCommand, Bytes(<<162, 2, 132>>)),
       W(PWCTR2, NoBytes),
       W(NoCommand, Bytes(<<10, 0>>)),
       W(PWCTR4, NoBytes),
       W(NoCommand, Bytes(<<138, 42>>)),
       W(PWCTR5, NoBytes),
       W(NoCommand, Bytes(<<138, 238>>)),
       W(VMCTR1, NoBytes),
       W(NoCommand, Bytes(<<14>>)),
       W(IF invert THEN INVON ELSE INVOFF, NoBytes),
       W(MADCTL, NoBytes),
       W(NoCommand, Bytes(<<192>>)),
       W(COLMOD, NoBytes),
       W(NoCommand, Bytes(<<5>>)),
       W(CASET, NoBytes),
       W(NoCommand, Bytes(<<0>>)),
       W(NoCommand, Bytes(StrEncode(OffsetLeft))),
       W(NoCommand, Bytes(<<0>>)),
       W(NoCommand, Bytes(StrEncode(PanelWidth + OffsetLeft - 1))),
       W(RASET, NoBytes),
       W(NoCommand, Bytes(<<0>>)),
       W(NoCommand, Bytes(StrEncode(OffsetTop))),
       W(NoCommand, Bytes(<<0>>)),
       W(NoCommand, Bytes(StrEncode(PanelHeight + OffsetTop - 1))),
       W(GMCTRP1, NoBytes),
       W(NoCommand, Bytes(<<2, 28, 7, 18, 55, 50, 41, 45>>)),
       W(NoCommand, Bytes(<<41, 37, 43, 57, 0, 1, 3, 16>>)),
       W(GMCTRN1, NoBytes),
       W(NoCommand, Bytes(<<3, 29, 7, 6, 46, 44, 41, 45>>)),
       W(NoCommand, Bytes(<<46, 46, 55, 63, 0, 0, 2, 16>>)),
       W(NORON, NoBytes), Sleep(100),
       W(DISPON, NoBytes), Sleep(100) >>

\* _block(x0, y0, x1, y1, data) with data given: the two window writes and
\* the RAM write; struct.pack raises on a coordinate outside 0..65535
block(x0, y0, x1, y1, data) ==
    IF ~encode_pos_fits(x0 + X_START, x1 + X_START)
    THEN [log |-> <<>>, raised |-> "struct.error"]
    ELSE IF ~encode_pos_fits(y0 + Y_START, y1 + Y_START)
    THEN [log |-> << W(CASET, Bytes(encode_pos(x0 + X_START, x1 + X_START))) >>,
          raised |-> "struct.error"]
    ELSE [log |-> << W(CASET, Bytes(encode_pos(x0 + X_START, x1 + X_START))),
                     W(RASET, Bytes(encode_pos(y0 + Y_START, y1 + Y_START))),
                     W(RAMWR, data) >>,
          raised |-> ""]

\* min(limit - 1, max(0, pos))
ClampPos(limit, pos) == Min(limit - 1, Max(0, pos))

\* the size clamped to the panel's edge only
ClampSizeNoFloor(limit, pos, size) == Min(limit - pos, size)

\* min(limit - pos, max(1, size))
ClampSize(limit, pos, size) == Min(limit - pos, Max(1, size))

\* the pixel writes of fill_rectangle: chunks writes of BUFFER_SIZE pixels,
\* then the rest
pixel_writes(pixel, n) ==
    LET chunks == n \div BUFFER_SIZE
        rest == n % BUFFER_SIZE
    IN  [i \in 1 .. chunks |-> W(NoCommand, Repeat(pixel, BUFFER_SIZE))]
        \o (IF ByteLen(Repeat(pixel, rest)) # 0
            THEN << W(NoCommand, Repeat(pixel, rest)) >>
            ELSE <<>>)

fill_rectangle(x, y, width, height, color) ==
    LET cx == ClampPos(PanelWidth, x)
        cy == ClampPos(PanelHeight, y)
        cw == ClampSize(PanelWidth, cx, width)
        ch == ClampSize(PanelHeight, cy, height)
        b == block(cx, cy, cx + cw - 1, cy + ch - 1, Bytes(<<48>>))
    IN  IF b.raised # ""
        THEN b
        ELSE [log |-> b.log \o pixel_writes(encode_pixel(color), cw * ch),
              raised |-> ""]

\* image_to_data of an image of one colour: two bytes per pixel, 5-6-5
image_to_data(rgb, npixels) ==
    LET color == BitOr(BitOr(Shl(BitAnd(rgb[1], 248), 8), Shl(BitAnd(rgb[2], 252), 3)),
                       Shr(rgb[3], 3))
    IN  Repeat(<<BitAnd(Shr(color, 8), 255), BitAnd(color, 255)>>, npixels)

\* LcdWrapper.image of an img of the given mode and size, filled with rgb
image(mode, imgw, imgh, rgb, rotation, x, y) ==
    LET imwidth == IF rotation \in {90, 270} THEN imgh ELSE imgw
        imheight == IF rotation \in {90, 270} THEN imgw ELSE imgh
    IN  IF mode \notin {"RGB", "RGBA"} THEN [log |-> <<>>, raised |-> "ValueError"]
        ELSE IF rotation \notin {0, 90, 180, 270}
        THEN [log |-> <<>>, raised |-> "ValueError"]
        ELSE IF x + imwidth > PanelWidth \/ y + imheight > PanelHeight
        THEN [log |-> <<>>, raised |-> "ValueError"]
        ELSE block(x, y, x + imwidth - 1, y + imheight - 1,
                   image_to_data(rgb, imwidth * imheight))

\* the arguments tried
FillXs == -1 .. PanelWidth
FillYs == -1 .. PanelHeight
FillWidths == -1 .. PanelWidth + 1
FillHeights == -1 .. PanelHeight + 1
FillColors == {2016, 63519}
ImageXs == {-1, 0, 1, PanelWidth - 1}
ImageYs == {-1, 0, 1, PanelHeight - 1}
ImageWidths == {1, 2, PanelWidth, PanelWidth + 1}
ImageHeights == {1, 2, PanelHeight, PanelHeight + 1}
ImageModes == {"RGB", "L"}
Rotations == {0, 90, 180, 270, 45}

NoArgs == [x |-> 0, y |-> 0, width |-> 0, height |-> 0, color |-> 0,
           rotation |-> 0, mode |-> ""]

LcdInit ==
    /\ lcdInvert = FALSE
    /\ lcdOp = "none"
    /\ lcdArgs = NoArgs
    /\ lcdLog = <<>>
    /\ lcdRaised = ""

CallInit ==
    /\ lcdOp = "none" /\ mOp = "none"
    /\ lcdOp' = "init"
    /\ lcdLog' = init_log(lcdInvert)
    /\ UNCHANGED <<lcdInvert, lcdArgs, lcdRaised, lcdOthers>>

CallFillRectangle ==
    /\ lcdOp = "none" /\ mOp = "none"
    /\ \E x \in FillXs, y \in FillYs, width \in FillWidths, height \in FillHeights,
          color \in FillColors :
         LET r == fill_rectangle(x, y, width, height, color)
         IN  /\ lcdOp' = "fill_rectangle"
             /\ lcdArgs' = [NoArgs EXCEPT !.x = x, !.y = y, !.width = width,
                                          !.height = height, !.color = color]
             /\ lcdLog' = r.log
             /\ lcdRaised' = r.raised
    /\ UNCHANGED <<lcdInvert, lcdOthers>>

CallImage ==
    /\ lcdOp = "none" /\ mOp = "none"
    /\ \E x \in ImageXs, y \in ImageYs, width \in ImageWidths, height \in ImageHeights,
          mode \in ImageModes, rotation \in Rotations :
         LET r == image(mode, width, height, <<0, 255, 0>>, rotation, x, y)
         IN  /\ lcdOp' = "image"
             /\ lcdArgs' = [NoArgs EXCEPT !.x = x, !.y = y, !.width = width,
                                          !.height = height, !.rotation = rotation,
                                          !.mode = mode]
             /\ lcdLog' = r.log
             /\ lcdRaised' = r.raised
    /\ UNCHANGED <<lcdInvert, lcdOthers>>

(***************************************************************************)
(* The sensor driver, CO2MeterWrapper, over I2CWrapper.  Each operation    *)
(* is given what the device answers and yields its traffic on the sensor   *)
(* bus, the exception it raises ("" when none) and its result.             *)
(***************************************************************************)
SW_RESET_ADDR == 255
SW_RESET_VAL == <<17, 229, 114, 138>>
HW_ID_ADDR == 32
HW_ID_VAL == 129
STATUS_ADDR == 0
STATUS_REG_FW_MODE_FIELD == <<7, 7>>
STATUS_REG_APP_VALID_FIELD == <<4, 4>>
STATUS_REG_DATA_READY_FIELD == <<3, 3>>
STATUS_REG_ERROR_FIELD == <<0, 0>>
APP_START_ADDR == 244
MEAS_MODE_ADDR == 1
MEAS_MODE_REG_DRIVE_MODE_FIELD == <<6, 4>>
DRIVE_MODE_1SEC == 1
ALG_RESULT_DATA_ADDR == 2
ERROR_ID_ADDR == 224

\* I2CWrapper.write(addr, data)
I2cWrite(addr, data) ==
    [ev |-> "write", addr |-> addr, data |-> data, count |-> 0, ms |-> 0]
\* I2CWrapper.read(addr, count), answered with data
I2cRead(addr, count, data) ==
    [ev |-> "read", addr |-> addr, data |-> data, count |-> count, ms |-> 0]
\* time.sleep
I2cSleep(ms) ==
    [ev |-> "sleep", addr |-> 0, data |-> NoData, count |-> 0, ms |-> ms]

reset ==
    [log |-> << I2cWrite(SW_RESET_ADDR, SW_RESET_VAL), I2cSleep(500) >>,
     raised |-> "", val |-> 0]

check_devid(res) ==
    [log |-> << I2cRead(HW_ID_ADDR, 1, <<res>>) >>,
     raised |-> "", val |-> IF res = HW_ID_VAL THEN 1 ELSE 0]

read_status(res) ==
    [log |-> << I2cRead(STATUS_ADDR, 1, <<res>>) >>, raised |-> "", val |-> res]

check_errid(res) ==
    [log |-> << I2cRead(ERROR_ID_ADDR, 1, <<res>>) >>,
     raised |-> "", val |-> IF res = 0 THEN 1 ELSE 0]

set_app_mode ==
    [log |-> << I2cWrite(APP_START_ADDR, NoData), I2cSleep(100) >>,
     raised |-> "", val |-> 0]

\* setmeas_mode(mode), the register read answered with regval
setmeas_mode(mode, regval) ==
    LET rd == I2cRead(MEAS_MODE_ADDR, 1, <<regval>>)
        r == set_field(regval, MEAS_MODE_REG_DRIVE_MODE_FIELD, mode)
    IN  IF r.raised
        THEN [log |-> << rd >>, raised |-> "AssertionError", val |-> 0]
        ELSE IF ~PackFits(1, r.val)
        THEN [log |-> << rd >>, raised |-> "struct.error", val |-> 0]
        ELSE [log |-> << rd, I2cWrite(MEAS_MODE_ADDR, PackBE(1, r.val)),
                         I2cSleep(500) >>,
              raised |-> "", val |-> 0]

\* read_meas taking the low byte of each value first
read_meas_low_first(data) ==
    [log |-> << I2cRead(ALG_RESULT_DATA_ADDR, 4, data) >>,
     raised |-> "",
     val |-> << BitOr(Shl(data[2], 8), data[1]), BitOr(Shl(data[4], 8), data[3]) >>]

\* read_meas, the block read answered with the 4 bytes data
read_meas(data) ==
    [log |-> << I2cRead(ALG_RESULT_DATA_ADDR, 4, data) >>,
     raised |-> "",
     val |-> << BitOr(Shl(data[1], 8), data[2]), BitOr(Shl(data[3], 8), data[4]) >>]

\* what the device is taken to answer
DevIds == {HW_ID_VAL, 0}
StatusVals == {16, 17, 24, 25, 144, 145, 152, 153}
ErrorIds == {0, 1, 32}
MeasModeVals == {0, 12, 124, 255}
MeasBlocks == {<<0, 200, 0, 50>>, <<1, 144, 0, 0>>, <<255, 255, 255, 255>>}
\* the drive modes tried: 0..7 fit the field
DriveModes == 0 .. 9

MeterInit ==
    /\ mOp = "none"
    /\ mArg = 0
    /\ mLog = <<>>
    /\ mRaised = ""

CallSetmeasMode ==
    /\ mOp = "none" /\ lcdOp = "none"
    /\ \E mode \in DriveModes, regval \in MeasModeVals :
         LET r == setmeas_mode(mode, regval)
         IN  /\ mOp' = "setmeas_mode"
             /\ mArg' = mode
             /\ mLog' = r.log
             /\ mRaised' = r.raised
    /\ UNCHANGED meterOthers

(***************************************************************************)
(* The sensor session of the program: CO2MeterWrapper is constructed, then *)
(* CO2Widget, then the frame loop draws the widget.  An exception ends the *)
(* program.                                                                *)
(***************************************************************************)
\* draws of the widget in one run
MaxPolls == 2

SessionInit ==
    /\ sState = "new"
    /\ sRaised = ""
    /\ i2cLog = <<>>
    /\ eco2 = 0
    /\ tvoc = 0
    /\ text = [flag |-> "", eco2 |-> 0, tvoc |-> 0]
    /\ blits = <<>>
    /\ polls = 0

\* CO2MeterWrapper.__init__
CO2MeterWrapperInit ==
    /\ sState = "new"
    /\ sState' = "reset"
    /\ i2cLog' = i2cLog \o reset.log
    /\ UNCHANGED <<sRaised, eco2, tvoc, text, blits, polls, sessionOthers>>

\* a start-up that sets the measurement mode before it starts the application
CO2WidgetStartupModeFirst(devid, status1, errid1, status2, errid2, measmode) ==
    LET mm == setmeas_mode(DRIVE_MODE_1SEC, measmode)
    IN  [log |-> check_devid(devid).log \o read_status(status1).log
                 \o check_errid(errid1).log \o mm.log \o set_app_mode.log
                 \o read_status(status2).log,
         raised |-> IF get_field(status2, STATUS_REG_FW_MODE_FIELD) = 0
                       \/ get_field(status2, STATUS_REG_ERROR_FIELD) # 0
                    THEN "RuntimeError" ELSE ""]

\* the bus traffic and the outcome of CO2Widget.__init__, given the answers
\* of the device to its reads, in the order they are asked for
CO2WidgetStartup(devid, status1, errid1, status2, errid2, measmode) ==
    LET head == check_devid(devid).log \o read_status(status1).log
                \o check_errid(errid1).log \o set_app_mode.log
                \o read_status(status2).log
        mm == setmeas_mode(DRIVE_MODE_1SEC, measmode)
    IN  IF get_field(status2, STATUS_REG_FW_MODE_FIELD) = 0
        THEN [log |-> head, raised |-> "RuntimeError"]
        ELSE IF get_field(status2, STATUS_REG_ERROR_FIELD) # 0
        THEN [log |-> head \o check_errid(errid2).log, raised |-> "RuntimeError"]
        ELSE [log |-> head \o mm.log, raised |-> mm.raised]

\* CO2Widget.__init__
CO2WidgetInit ==
    /\ sState = "reset"
    /\ \E devid \in DevIds, status1 \in StatusVals, errid1 \in ErrorIds,
          status2 \in StatusVals, errid2 \in ErrorIds, measmode \in MeasModeVals :
         LET r == CO2WidgetStartup(devid, status1, errid1, status2, errid2, measmode)
         IN  /\ i2cLog' = i2cLog \o r.log
             /\ sRaised' = r.raised
             /\ sState' = IF r.raised = "" THEN "measuring" ELSE "failed"
    /\ text' = [flag |-> "", eco2 |-> 0, tvoc |-> 0]
    /\ eco2' = 0
    /\ tvoc' = 0
    /\ UNCHANGED <<blits, polls, sessionOthers>>

\* a poll that forgets the cached pair when the sensor has nothing new
CachedPairCleared(has_new_val, measured, cached) ==
    IF has_new_val # 0 THEN measured ELSE <<0, 0>>

\* the cached (eCO2, TVOC) pair after a poll: replaced by the measurement read
\* when the data-ready field is set, kept otherwise
CachedPair(has_new_val, measured, cached) ==
    IF has_new_val # 0 THEN measured ELSE cached

\* CO2Widget.draw
CO2WidgetDraw ==
    /\ sState = "measuring"
    /\ polls < MaxPolls
    /\ polls' = polls + 1
    /\ \E status \in StatusVals, errid \in ErrorIds, data \in MeasBlocks :
         LET has_new_val == get_field(status, STATUS_REG_DATA_READY_FIELD)
             st == read_status(status)
             meas == read_meas(data)
         IN  IF get_field(status, STATUS_REG_ERROR_FIELD) # 0
             THEN /\ i2cLog' = i2cLog \o st.log \o check_errid(errid).log
                  /\ sRaised' = "RuntimeError"
                  /\ sState' = "failed"
                  /\ UNCHANGED <<eco2, tvoc, text, blits>>
             ELSE /\ i2cLog' = i2cLog \o st.log
                                 \o (IF has_new_val # 0 THEN meas.log ELSE <<>>)
                  /\ eco2' = CachedPair(has_new_val, meas.val, <<eco2, tvoc>>)[1]
                  /\ tvoc' = CachedPair(has_new_val, meas.val, <<eco2, tvoc>>)[2]
                  /\ text' = [flag |-> IF has_new_val # 0 THEN "N " ELSE "O ",
                              eco2 |-> eco2', tvoc |-> tvoc']
                  /\ blits' = Append(blits, text')
                  /\ UNCHANGED <<sState, sRaised>>
    /\ UNCHANGED sessionOthers

(***************************************************************************)
(* The widget tree.  A widget is a record of its attributes; `built` tells *)
(* that its constructor has returned, so that the program holds a          *)
(* reference to it.  For a RectWidget, which has no text and no            *)
(* _need_redraw attribute, text is "" and _need_redraw is FALSE.           *)
(***************************************************************************)
MaxNodes == 3

MaxDraws == 2

\* the geometries tried, <<relx, rely, width, height>>
Geometries == { <<1, 8, 2, 2>>, <<1, 0, -1, 2>>, <<0, 1, 2, -1>> }

WidgetColors == {2016}

Texts == {"Hello, world!"}

\* LcdWrapper(spi, 128, 160, rotation=180)
LcdRotation == 180

\* the status bytes a CO2Widget in the tree is answered with when drawn
TreeStatusVals == {144, 152, 145}

\* the ways the sensor start-up of CO2Widget.__init__ can end
StartupOutcomes ==
    { CO2WidgetStartup(HW_ID_VAL, 144, 0, status2, 0, 0).raised :
         status2 \in StatusVals }

\* the calls recorded during a draw of the root
DrawCall(id) ==
    [ev |-> "draw", node |-> id, x |-> 0, y |-> 0, width |-> 0, height |-> 0,
     text |-> ""]
FillRectangleCall(id, x, y, width, height) ==
    [ev |-> "fill_rectangle", node |-> id, x |-> x, y |-> y, width |-> width,
     height |-> height, text |-> ""]
DrawTextCall(id, x, y, width, height, string) ==
    [ev |-> "draw_text", node |-> id, x |-> x, y |-> y, width |-> width,
     height |-> height, text |-> string]

\* bounds computed from the offsets alone, whatever the parent
RectWidgetBoundsNoParent(ns, parent, g) ==
    [x0 |-> g[1], x1 |-> g[1] + g[3], y0 |-> g[2], y1 |-> g[2] + g[4]]

\* the absolute bounds of a widget; parent is 0 when there is none
RectWidgetBounds(ns, parent, g) ==
    LET x0 == (IF parent # 0 THEN ns[parent].x0 ELSE 0) + g[1]
        y0 == (IF parent # 0 THEN ns[parent].y0 ELSE 0) + g[2]
    IN  [x0 |-> x0, x1 |-> x0 + g[3], y0 |-> y0, y1 |-> y0 + g[4]]

add_child(ns, parent, child) ==
    [ns EXCEPT ![parent].children = Append(@, child)]

\* RectWidget.__init__ for a widget of the given class
RectWidgetInit(ns, kind, parent, g, color) ==
    LET b == RectWidgetBounds(ns, parent, g)
        id == Len(ns) + 1
        self == [kind |-> kind, parent |-> parent,
                 relx |-> g[1], rely |-> g[2], width |-> g[3], height |-> g[4],
                 x0 |-> b.x0, x1 |-> b.x1, y0 |-> b.y0, y1 |-> b.y1,
                 color |-> color, children |-> <<>>,
                 need_redraw |-> TRUE, _need_redraw |-> FALSE, text |-> "",
                 built |-> FALSE]
    IN  IF ~(b.x0 <= b.x1) \/ ~(b.y0 <= b.y1)
        THEN [nodes |-> ns, raised |-> "AssertionError"]
        ELSE [nodes |-> Append(IF parent # 0 THEN add_child(ns, parent, id) ELSE ns,
                               self),
              raised |-> ""]

\* the text setter of TextLabel and of CO2Widget
set_text(ns, id, value) ==
    [ns EXCEPT ![id].text = value, ![id]._need_redraw = TRUE]

Built(ns, id) == [ns EXCEPT ![id].built = TRUE]

\* TextLabel.__init__
TextLabelInit(ns, parent, g, color, string) ==
    LET r == RectWidgetInit(ns, "label", parent, g, color)
    IN  IF r.raised # "" THEN r
        ELSE [nodes |-> Built(set_text(r.nodes, Len(r.nodes), string), Len(r.nodes)),
              raised |-> ""]

\* CO2Widget.__init__, its sensor start-up ending with startup
CO2WidgetInitIn(ns, parent, g, color, startup) ==
    LET r == RectWidgetInit(ns, "co2", parent, g, color)
        withText == set_text(r.nodes, Len(r.nodes), "")
    IN  IF r.raised # "" THEN r
        ELSE IF startup # "" THEN [nodes |-> withText, raised |-> startup]
        ELSE [nodes |-> Built(withText, Len(r.nodes)), raised |-> ""]

\* LcdWrapper.draw_text at pos with image_size, within a draw of the root
draw_text(st, id, string, x, y, width, height) ==
    LET img == image("RGB", width, height, <<0, 0, 0>>, LcdRotation, x, y)
    IN  IF img.raised # ""
        THEN [st EXCEPT !.raised = img.raised]
        ELSE [st EXCEPT !.log = Append(@, DrawTextCall(id, x, y, width, height, string))]

\* TextLabel.draw
TextLabelDraw(st, id) ==
    LET n == st.nodes[id]
    IN  draw_text(st, id, n.text, n.x0, n.y0, n.x1 - n.x0, n.y1 - n.y0)

\* CO2Widget.draw, its status read answered with status; the text is kept
\* as its "O " / "N " prefix
CO2WidgetDrawIn(st, id, status) ==
    LET n == st.nodes[id]
        has_new_val == get_field(status, STATUS_REG_DATA_READY_FIELD)
        string == IF has_new_val # 0 THEN "N " ELSE "O "
        shown == [st EXCEPT !.nodes = set_text(@, id, string)]
    IN  IF get_field(status, STATUS_REG_ERROR_FIELD) # 0
        THEN [st EXCEPT !.raised = "RuntimeError"]
        ELSE IF has_new_val = 0 /\ ~n.built
        THEN [st EXCEPT !.raised = "AttributeError"]
        ELSE draw_text(shown, id, string, n.x0, n.y0, n.x1 - n.x0, n.y1 - n.y0)

\* the need_redraw part of RectWidget.draw, leaving the flag set
RectWidgetFillKeepsFlag(st, id) ==
    LET n == st.nodes[id]
    IN  IF n.need_redraw
        THEN [st EXCEPT !.log = Append(@, FillRectangleCall(id, n.x0, n.y0, n.x1, n.y1))]
        ELSE st

\* the need_redraw part of RectWidget.draw
RectWidgetFill(st, id) ==
    LET n == st.nodes[id]
    IN  IF n.need_redraw
        THEN [st EXCEPT !.log = Append(@, FillRectangleCall(id, n.x0, n.y0, n.x1, n.y1)),
                        !.nodes[id].need_redraw = FALSE]
        ELSE st

RECURSIVE draw(_, _, _)
RECURSIVE DrawChildren(_, _, _, _)

\* for child in self._children: child.draw(), from the k-th child on; an
\* exception ends the loop
DrawChildren(st, id, k, statuses) ==
    IF st.raised # "" \/ k > Len(st.nodes[id].children)
    THEN st
    ELSE DrawChildren(draw(st, st.nodes[id].children[k], statuses), id, k + 1, statuses)

\* RectWidget.draw
RectWidgetDraw(st, id, statuses) ==
    DrawChildren(RectWidgetFill(st, id), id, 1, statuses)

\* widget.draw(), dispatched on the class of the widget
draw(st, id, statuses) ==
    LET called == [st EXCEPT !.log = Append(@, DrawCall(id))]
    IN  CASE st.nodes[id].kind = "rect" -> RectWidgetDraw(called, id, statuses)
          [] st.nodes[id].kind = "label" -> TextLabelDraw(called, id)
          [] st.nodes[id].kind = "co2" -> CO2WidgetDrawIn(called, id, statuses[id])

TreeInit ==
    /\ nodes = <<>>
    /\ draws = <<>>
    /\ tMutated = FALSE
    /\ tLast = [op |-> "none", node |-> 0, raised |-> ""]

\* The program constructs its widgets before the first draw of the root.
CanConstruct == Len(nodes) < MaxNodes /\ draws = <<>>

\* the widgets a new widget can be given as parent: the first widget has
\* none, the others any widget the program holds
Parents == IF nodes = <<>> THEN {0} ELSE { i \in 1 .. Len(nodes) : nodes[i].built }

Constructed(r) ==
    /\ nodes' = r.nodes
    /\ tMutated' = (tMutated \/ r.nodes # nodes)
    /\ tLast' = [op |-> "construct",
                 node |-> IF r.nodes # nodes THEN Len(r.nodes) ELSE 0,
                 raised |-> r.raised]
    /\ UNCHANGED <<draws, treeOthers>>

\* RectWidget(lcd, parent, relx, rely, width, height, color)
NewRectWidget ==
    /\ CanConstruct
    /\ \E parent \in Parents, g \in Geometries, color \in WidgetColors :
         LET r == RectWidgetInit(nodes, "rect", parent, g, color)
         IN  Constructed(IF r.raised # "" THEN r
                         ELSE [r EXCEPT !.nodes = Built(@, Len(@))])

\* TextLabel(lcd, parent, relx, rely, width, height, font_color, bg_color, text)
NewTextLabel ==
    /\ CanConstruct
    /\ \E parent \in Parents, g \in Geometries, color \in WidgetColors :
         Constructed(TextLabelInit(nodes, parent, g, color, ""))

\* CO2Widget(lcd, parent, relx, rely, width, height, font_color, bg_color, co2meter)
NewCO2Widget ==
    /\ CanConstruct
    /\ \E parent \in Parents, g \in Geometries, color \in WidgetColors,
          startup \in StartupOutcomes :
         Constructed(CO2WidgetInitIn(nodes, parent, g, color, startup))

\* label.text = value, as the loop of the program does with its date label
AssignText ==
    /\ \E id \in 1 .. Len(nodes), value \in Texts :
         /\ nodes[id].kind = "label"
         /\ nodes[id].built
         /\ nodes' = set_text(nodes, id, value)
         /\ tLast' = [op |-> "text", node |-> id, raised |-> ""]
    /\ tMutated' = TRUE
    /\ UNCHANGED <<draws, treeOthers>>

\* the draw() of the first widget, the root of the tree, which the program
\* holds when its constructor has returned
DrawRoot ==
    /\ nodes # <<>>
    /\ nodes[1].built
    /\ Len(draws) < MaxDraws
    /\ \E statuses \in [{ i \in 1 .. Len(nodes) : nodes[i].kind = "co2" }
                          -> TreeStatusVals] :
         LET r == draw([nodes |-> nodes, log |-> <<>>, raised |-> ""], 1, statuses)
         IN  /\ nodes' = r.nodes
             /\ draws' = Append(draws,
                   [log |-> r.log, raised |-> r.raised, size |-> Len(nodes),
                    dirty |-> { i \in 1 .. Len(nodes) : nodes[i].need_redraw },
                    mutated |-> tMutated])
             /\ tLast' = [op |-> "draw", node |-> 1, raised |-> r.raised]
    /\ tMutated' = FALSE
    /\ UNCHANGED treeOthers

(***************************************************************************)
(* The program, __main__: two statements before the try block, the         *)
(* statements of the try block, of which any can raise, and the statements *)
(* of the finally block.                                                   *)
(***************************************************************************)
MaxFrames == 2

\* the statements of the try block, in order; the last one is the frame loop
TryOrder ==
    << "led_on", "spi_dev", "spi_open", "pins", "lcd", "pi", "i2c_open",
       "co2meter", "led_off", "display_id", "widgets", "loop" >>

\* the names a statement of the try block assigns
Binds(stmt) ==
    CASE stmt = "spi_dev" -> {"spi_dev"}
      [] stmt = "pins" -> {"dc_pin", "rst_pin", "spi"}
      [] stmt = "lcd" -> {"lcd"}
      [] stmt = "pi" -> {"pi"}
      [] stmt = "i2c_open" -> {"i2c_device"}
      [] stmt = "co2meter" -> {"i2c", "co2meter"}
      [] stmt = "display_id" -> {"res"}
      [] stmt = "widgets" -> {"main_widget", "date_widget", "text_widget", "co2_widget"}
      [] OTHER -> {}

Exceptions == {"KeyboardInterrupt", "OSError", "RuntimeError"}

PositionOf(stmt) == CHOOSE i \in 1 .. Len(TryOrder) : TryOrder[i] = stmt

InTry == \E i \in 1 .. Len(TryOrder) : TryOrder[i] = pc

MainInit ==
    /\ pc = "setmode"
    /\ bound = {}
    /\ statusLed = "unset"
    /\ spiOpen = FALSE
    /\ i2cOpen = FALSE
    /\ gpioSetup = FALSE
    /\ frames = 0
    /\ exc = ""

\* GPIO.setmode(GPIO.BCM)
MainSetmode ==
    /\ pc = "setmode"
    /\ \/ /\ gpioSetup' = TRUE
          /\ pc' = "status_led"
          /\ exc' = exc
       \/ /\ \E e \in Exceptions : exc' = e
          /\ pc' = "exit"
          /\ gpioSetup' = gpioSetup
    /\ UNCHANGED <<bound, statusLed, spiOpen, i2cOpen, frames, mainOthers>>

\* status_led = PinWrapper(26)
MainStatusLed ==
    /\ pc = "status_led"
    /\ \/ /\ bound' = bound \cup {"status_led"}
          /\ statusLed' = 0
          /\ pc' = TryOrder[1]
          /\ exc' = exc
       \/ /\ \E e \in Exceptions : exc' = e
          /\ pc' = "exit"
          /\ UNCHANGED <<bound, statusLed>>
    /\ UNCHANGED <<spiOpen, i2cOpen, gpioSetup, frames, mainOthers>>

\* a statement of the try block before the loop completes
TryStep ==
    /\ InTry /\ pc # "loop"
    /\ pc' = TryOrder[PositionOf(pc) + 1]
    /\ bound' = bound \cup Binds(pc)
    /\ statusLed' = CASE pc = "led_on" -> 1 [] pc = "led_off" -> 0 [] OTHER -> statusLed
    /\ spiOpen' = (spiOpen \/ pc = "spi_open")
    /\ i2cOpen' = (i2cOpen \/ pc = "i2c_open")
    /\ UNCHANGED <<gpioSetup, frames, exc, mainOthers>>

\* one iteration of the loop: the texts are set and the root is drawn
Frame ==
    /\ pc = "loop"
    /\ frames < MaxFrames
    /\ frames' = frames + 1
    /\ UNCHANGED <<pc, bound, statusLed, spiOpen, i2cOpen, gpioSetup, exc, mainOthers>>

\* a statement of the try block raises: control goes to the finally block
TryRaise ==
    /\ InTry
    /\ \E e \in Exceptions : exc' = e
    /\ pc' = "finally_led"
    /\ UNCHANGED <<bound, statusLed, spiOpen, i2cOpen, gpioSetup, frames, mainOthers>>

\* status_led.value = 0
FinallyLed ==
    /\ pc = "finally_led"
    /\ statusLed' = 0
    /\ pc' = "finally_i2c"
    /\ UNCHANGED <<bound, spiOpen, i2cOpen, gpioSetup, frames, exc, mainOthers>>

\* if i2c_device is not None: pi.i2c_close(i2c_device)
FinallyI2c ==
    /\ pc = "finally_i2c"
    /\ IF "i2c_device" \in bound
       THEN /\ i2cOpen' = FALSE
            /\ pc' = "finally_gpio"
            /\ exc' = exc
       ELSE /\ exc' = "NameError"
            /\ pc' = "exit"
            /\ i2cOpen' = i2cOpen
    /\ UNCHANGED <<bound, statusLed, spiOpen, gpioSetup, frames, mainOthers>>

\* GPIO.cleanup(), the first one
FinallyGpio ==
    /\ pc = "finally_gpio"
    /\ gpioSetup' = FALSE
    /\ pc' = "finally_spi"
    /\ UNCHANGED <<bound, statusLed, spiOpen, i2cOpen, frames, exc, mainOthers>>

\* spi_dev.close()
FinallySpi ==
    /\ pc = "finally_spi"
    /\ IF "spi_dev" \in bound
       THEN /\ spiOpen' = FALSE
            /\ pc' = "finally_gpio2"
            /\ exc' = exc
       ELSE /\ exc' = "NameError"
            /\ pc' = "exit"
            /\ spiOpen' = spiOpen
    /\ UNCHANGED <<bound, statusLed, i2cOpen, gpioSetup, frames, mainOthers>>

\* GPIO.cleanup(), the second one; the exception is then propagated
FinallyGpioAgain ==
    /\ pc = "finally_gpio2"
    /\ gpioSetup' = FALSE
    /\ pc' = "exit"
    /\ UNCHANGED <<bound, statusLed, spiOpen, i2cOpen, frames, exc, mainOthers>>

(***************************************************************************)
(* Specifications.                                                         *)
(***************************************************************************)
Init ==
    /\ CodecInit /\ SpiInit /\ LcdInit /\ MeterInit /\ SessionInit
    /\ TreeInit /\ MainInit

NextCodec == CallSetField \/ CallGetField

SpecCodec == Init /\ [][NextCodec]_vars

NextSpi == SpiCaller \/ SpiTransport

SpecSpi == Init /\ [][NextSpi]_vars

\* each operation of the two drivers, called once on a fresh driver
NextDrivers == CallInit \/ CallFillRectangle \/ CallImage \/ CallSetmeasMode

SpecDrivers == Init /\ [][NextDrivers]_vars

\* the sensor session of the program
Next == CO2MeterWrapperInit \/ CO2WidgetInit \/ CO2WidgetDraw

Spec == Init /\ [][Next]_vars

\* the widget tree: constructions, text assignments and draws of the root
NextTree == NewRectWidget \/ NewTextLabel \/ NewCO2Widget \/ AssignText \/ DrawRoot

SpecTree == Init /\ [][NextTree]_vars

\* the program from its first statement to its exit
NextMain ==
    \/ MainSetmode \/ MainStatusLed \/ TryStep \/ Frame \/ TryRaise
    \/ FinallyLed \/ FinallyI2c \/ FinallyGpio \/ FinallySpi \/ FinallyGpioAgain

SpecMain == Init /\ [][NextMain]_vars

\* The calling thread always gets to run; nothing in the program bounds the
\* time the bus takes.
FairSpecSpi == Init /\ [][NextSpi]_vars /\ WF_vars(SpiCaller)

(***************************************************************************)
(* What the bus should have carried for the calls submitted so far.        *)
(***************************************************************************)
\* the bytes a call puts on the bus: its command byte, then its data bytes
\* (write) or count clocked-out zero bytes (read)
ExpectedOut(call) ==
    LET cmd == IF call.command # NoCommand
               THEN <<[id |-> call.id, kind |-> "cmd", out |-> call.command]>>
               ELSE <<>>
        rest == IF call.op = "write"
                THEN IF call.data # NoData
                     THEN [i \in 1 .. Len(call.data) |->
                             [id |-> call.id, kind |-> "data", out |-> call.data[i]]]
                     ELSE <<>>
                ELSE [i \in 1 .. call.count |->
                             [id |-> call.id, kind |-> "read", out |-> 0]]
    IN  cmd \o rest

RECURSIVE ExpectedUpTo(_)
ExpectedUpTo(n) ==
    IF n = 0 THEN <<>> ELSE ExpectedUpTo(n - 1) \o ExpectedOut(spiCalls[n])

BusShape ==
    [i \in 1 .. Len(spiBus) |->
        [id |-> spiBus[i].id, kind |-> spiBus[i].kind, out |-> spiBus[i].out]]

IsPrefix(p, q) == Len(p) <= Len(q) /\ \A i \in 1 .. Len(p) : p[i] = q[i]

BusOf(id) == SelectSeq(spiBus, LAMBDA e : e.id = id)

(***************************************************************************)
(* C1: the bus carries the bytes of the calls in submission order: what    *)
(* the bus has carried is always the bytes of the calls that returned, in  *)
(* the order they were submitted, followed by the first bytes of the call  *)
(* in progress, with nothing reordered or interleaved.                     *)
(***************************************************************************)
C1_BusInSubmissionOrder ==
    /\ IsPrefix(BusShape, ExpectedUpTo(Len(spiCalls)))
    /\ IsPrefix(ExpectedUpTo(Len(spiDone)), BusShape)

\* W1, R, W2 were submitted in this order, each with bytes, and all returned
C1_Witness ==
    /\ Len(spiDone) >= 3
    /\ spiCalls[1].op = "write" /\ spiCalls[1].command # NoCommand
    /\ spiCalls[1].data # NoData
    /\ spiCalls[2].op = "read" /\ spiCalls[2].command # NoCommand
    /\ spiCalls[2].count > 0
    /\ spiCalls[3].op = "write" /\ spiCalls[3].command # NoCommand
    /\ spiCalls[3].data # NoData

Representable(field, fieldval) == fieldval < Pow2(FieldWidth(field))

C4_GetAfterSet ==
    (cOp = "set_field" /\ Representable(cField, cFieldval)) =>
        /\ ~cOut.raised
        /\ get_field(cOut.val, cField) = cFieldval

\* the drive mode field of a register with all bits set is set to 1
C4_Witness ==
    /\ cOp = "set_field"
    /\ cRegval = 255 /\ cField = <<6, 4>> /\ cFieldval = 1
    /\ ~cOut.raised

(***************************************************************************)
(* C5: set_field changes only the bits of the field: every bit of the      *)
(* result outside low..high equals the same bit of the register value.     *)
(***************************************************************************)
C5_SetFieldKeepsOtherBits ==
    (cOp = "set_field" /\ ~cOut.raised) =>
        \A i \in 0 .. RegBits - 1 :
            (i > cField[1] \/ i < cField[2]) => Bit(cOut.val, i) = Bit(cRegval, i)

(***************************************************************************)
(* C6: a precondition violation fails before any bus I/O of the call:      *)
(* image with a target region not entirely inside the panel raises with no *)
(* write on the serial transport, and setmeas_mode with a drive mode that  *)
(* needs more than the 3 bits of its field raises with no read or write on *)
(* the sensor bus.                                                         *)
(***************************************************************************)
ImageRegionInside ==
    LET imwidth == IF lcdArgs.rotation \in {90, 270} THEN lcdArgs.height
                   ELSE lcdArgs.width
        imheight == IF lcdArgs.rotation \in {90, 270} THEN lcdArgs.width
                    ELSE lcdArgs.height
    IN  /\ lcdArgs.x >= 0 /\ lcdArgs.y >= 0
        /\ lcdArgs.x + imwidth <= PanelWidth
        /\ lcdArgs.y + imheight <= PanelHeight

C6_PreconditionFailsBeforeIO ==
    /\ (lcdOp = "image" /\ ~ImageRegionInside) =>
          (lcdRaised # "" /\ lcdLog = <<>>)
    /\ (mOp = "setmeas_mode"
        /\ ~Representable(MEAS_MODE_REG_DRIVE_MODE_FIELD, mArg)) =>
          (mRaised # "" /\ mLog = <<>>)

(***************************************************************************)
(* C7: the traffic of fill_rectangle is one column-window write, one       *)
(* row-window write and then pixel data that is exactly w*h repetitions    *)
(* (w, h clamped) of the 2-byte encoded color, in chunks, with no other    *)
(* byte before, between or after them.                                     *)
(***************************************************************************)
RECURSIVE DataLen(_)
DataLen(log) ==
    IF log = <<>> THEN 0
    ELSE (IF Head(log).data.none THEN 0 ELSE ByteLen(Head(log).data))
         + DataLen(Tail(log))

C7_FillTraffic ==
    lcdOp = "fill_rectangle" =>
        LET cx == ClampPos(PanelWidth, lcdArgs.x)
            cy == ClampPos(PanelHeight, lcdArgs.y)
            cw == ClampSize(PanelWidth, cx, lcdArgs.width)
            ch == ClampSize(PanelHeight, cy, lcdArgs.height)
            pixels == SubSeq(lcdLog, 3, Len(lcdLog))
        IN  /\ lcdRaised = ""
            /\ Len(lcdLog) >= 3
            /\ lcdLog[1].command = CASET /\ lcdLog[2].command = RASET
            /\ lcdLog[3].command = RAMWR
            /\ \A i \in 4 .. Len(lcdLog) : lcdLog[i].command = NoCommand
            /\ \A i \in 1 .. Len(pixels) :
                  pixels[i].data.none
                  \/ ByteLen(pixels[i].data) = 0
                  \/ pixels[i].data.unit = PackBE(2, lcdArgs.color)
            /\ DataLen(pixels) = 2 * cw * ch

(***************************************************************************)
(* C8: for all arguments of fill_rectangle, negative and oversized ones    *)
(* included, the window it sends has 0 <= x_start <= x_end <= width - 1    *)
(* and 0 <= y_start <= y_end <= height - 1, and the pixels it streams are  *)
(* (x_end - x_start + 1) * (y_end - y_start + 1) copies of the encoded     *)
(* pixel.                                                                  *)
(***************************************************************************)
\* the two positions of a window write
WindowStart(w) == w.data.unit[1] * 256 + w.data.unit[2]
WindowEnd(w) == w.data.unit[3] * 256 + w.data.unit[4]

RECURSIVE PixelsStreamed(_)
PixelsStreamed(log) ==
    IF log = <<>> THEN 0 ELSE Head(log).data.reps + PixelsStreamed(Tail(log))

C8_FillWindowClamped ==
    lcdOp = "fill_rectangle" =>
        /\ lcdRaised = ""
        /\ Len(lcdLog) >= 3
        /\ lcdLog[1].command = CASET /\ Len(lcdLog[1].data.unit) = 4
        /\ lcdLog[2].command = RASET /\ Len(lcdLog[2].data.unit) = 4
        /\ LET xs == WindowStart(lcdLog[1])
               xe == WindowEnd(lcdLog[1])
               ys == WindowStart(lcdLog[2])
               ye == WindowEnd(lcdLog[2])
               stream == SubSeq(lcdLog, 4, Len(lcdLog))
           IN  /\ 0 <= xs /\ xs <= xe /\ xe <= PanelWidth - 1
               /\ 0 <= ys /\ ys <= ye /\ ye <= PanelHeight - 1
               /\ \A i \in 1 .. Len(stream) :
                     /\ stream[i].command = NoCommand
                     /\ stream[i].data.unit = encode_pixel(lcdArgs.color)
               /\ PixelsStreamed(stream) = (xe - xs + 1) * (ye - ys + 1)

\* a rectangle that starts left of and above the panel and is larger than
\* it has been filled, in more than one chunk
C8_Witness ==
    /\ lcdOp = "fill_rectangle"
    /\ lcdArgs.x < 0 /\ lcdArgs.y < 0
    /\ lcdArgs.width > PanelWidth /\ lcdArgs.height > PanelHeight
    /\ Len(lcdLog) >= 5

(***************************************************************************)
(* C9: init issues the controller commands in this order, each once:       *)
(* software reset, sleep-out, frame-rate control 1, 2, 3, inversion        *)
(* control, five power-control commands, voltage control, inversion on or  *)
(* off by the invert flag, memory-access-control, color-mode, column       *)
(* address set, row address set, positive gamma, negative gamma,           *)
(* normal-display-on, display-on; and the delay of software reset and of   *)
(* sleep-out is taken before the next command.                             *)
(***************************************************************************)
CommandsOf(log) ==
    LET cmds == SelectSeq(log, LAMBDA e : e.ev = "write" /\ e.command # NoCommand)
    IN  [i \in 1 .. Len(cmds) |-> cmds[i].command]

C9_InitCommandOrder ==
    lcdOp = "init" =>
        /\ CommandsOf(lcdLog) =
              << SWRESET, SLPOUT, FRMCTR1, FRMCTR2, FRMCTR3, INVCTR,
                 PWCTR1, PWCTR2, PWCTR3, PWCTR4, PWCTR5, VMCTR1,
                 IF lcdInvert THEN INVON ELSE INVOFF,
                 MADCTL, COLMOD, CASET, RASET, GMCTRP1, GMCTRN1, NORON, DISPON >>
        /\ \A i \in 1 .. Len(lcdLog) :
              (lcdLog[i].ev = "write" /\ lcdLog[i].command \in {SWRESET, SLPOUT}) =>
                 (i < Len(lcdLog) /\ lcdLog[i + 1].ev = "sleep" /\ lcdLog[i + 1].ms > 0)

(***************************************************************************)
(* C10: on every successful start-up the sensor bus sees exactly: reset    *)
(* write and its settle delay, device-id read, status read, error-register *)
(* read, application-start write, status read, measurement-mode read,      *)
(* measurement-mode write with drive mode 1 second; and no measurement     *)
(* result is read before the second status read has shown the firmware     *)
(* mode bit set and the error bit clear.                                   *)
(***************************************************************************)
ShapeOf(log) == [i \in 1 .. Len(log) |-> <<log[i].ev, log[i].addr>>]

StartupShape ==
    << <<"write", SW_RESET_ADDR>>, <<"sleep", 0>>,
       <<"read", HW_ID_ADDR>>, <<"read", STATUS_ADDR>>, <<"read", ERROR_ID_ADDR>>,
       <<"write", APP_START_ADDR>>, <<"sleep", 0>>,
       <<"read", STATUS_ADDR>>,
       <<"read", MEAS_MODE_ADDR>>, <<"write", MEAS_MODE_ADDR>>, <<"sleep", 0>> >>

IsStatusRead(e) == e.ev = "read" /\ e.addr = STATUS_ADDR

\* the position in the log of the second status read, 0 when there is none
SecondStatusRead ==
    LET at == { i \in 1 .. Len(i2cLog) :
                  /\ IsStatusRead(i2cLog[i])
                  /\ Cardinality({ j \in 1 .. i - 1 : IsStatusRead(i2cLog[j]) }) = 1 }
    IN  IF at = {} THEN 0 ELSE CHOOSE i \in at : TRUE

C10_StartupSequence ==
    /\ sState = "measuring" =>
          /\ Len(i2cLog) >= Len(StartupShape)
          /\ SubSeq(ShapeOf(i2cLog), 1, Len(StartupShape)) = StartupShape
          /\ i2cLog[1].data = SW_RESET_VAL
          /\ i2cLog[10].data = PackBE(1, i2cLog[10].data[1])
          /\ get_field(i2cLog[10].data[1], MEAS_MODE_REG_DRIVE_MODE_FIELD)
                = DRIVE_MODE_1SEC
    /\ \A i \in 1 .. Len(i2cLog) :
          (i2cLog[i].ev = "read" /\ i2cLog[i].addr = ALG_RESULT_DATA_ADDR) =>
             /\ SecondStatusRead # 0 /\ SecondStatusRead < i
             /\ get_field(i2cLog[SecondStatusRead].data[1], STATUS_REG_FW_MODE_FIELD) = 1
             /\ get_field(i2cLog[SecondStatusRead].data[1], STATUS_REG_ERROR_FIELD) = 0

\* a start-up has succeeded and a poll has read a measurement
C10_Witness ==
    /\ sState = "measuring"
    /\ \E i \in 1 .. Len(i2cLog) :
          i2cLog[i].ev = "read" /\ i2cLog[i].addr = ALG_RESULT_DATA_ADDR

(***************************************************************************)
(* C11: a device-id read that returns anything but 0x81 is fatal: the      *)
(* start-up fails, and neither the application-start write nor the         *)
(* measurement-mode write is issued after the mismatch.                    *)
(***************************************************************************)
IsWriteTo(e, addr) == e.ev = "write" /\ e.addr = addr

IsDevIdMismatch(e) ==
    e.ev = "read" /\ e.addr = HW_ID_ADDR /\ e.data[1] # HW_ID_VAL

C11_DevIdMismatchIsFatal ==
    \A i \in 1 .. Len(i2cLog) :
       IsDevIdMismatch(i2cLog[i]) =>
          /\ sState # "measuring"
          /\ \A j \in i + 1 .. Len(i2cLog) :
                /\ ~IsWriteTo(i2cLog[j], APP_START_ADDR)
                /\ ~IsWriteTo(i2cLog[j], MEAS_MODE_ADDR)

(***************************************************************************)
(* C12: in every poll whose status read shows the error bit clear and the  *)
(* data-ready bit clear, no measurement is read, the cached (eCO2, TVOC)   *)
(* pair is unchanged, and the text showing that unchanged pair is still    *)
(* blitted; the cached pair changes only in a poll whose status read shows *)
(* data-ready set.                                                         *)
(***************************************************************************)
\* the bus events the step has added to the log
NewEvents == SubSeq(i2cLog', Len(i2cLog) + 1, Len(i2cLog'))

IsPollStep == polls' = polls + 1

PollStatus == NewEvents[1].data[1]

C12_LastKnownGood ==
    [][ /\ ( /\ IsPollStep
             /\ get_field(PollStatus, STATUS_REG_ERROR_FIELD) = 0
             /\ get_field(PollStatus, STATUS_REG_DATA_READY_FIELD) = 0 ) =>
              /\ Len(NewEvents) = 1 /\ IsStatusRead(NewEvents[1])
              /\ <<eco2', tvoc'>> = <<eco2, tvoc>>
              /\ blits' = Append(blits, [flag |-> "O ", eco2 |-> eco2, tvoc |-> tvoc])
        /\ <<eco2', tvoc'>> # <<eco2, tvoc>> =>
              /\ IsPollStep
              /\ get_field(PollStatus, STATUS_REG_DATA_READY_FIELD) = 1
      ]_vars

\* a poll has shown a measurement as new and the next poll, with nothing new
\* to read, has shown the same measurement as old
C12_Witness ==
    /\ Len(blits) = 2
    /\ blits[1].flag = "N " /\ blits[1].eco2 # 0
    /\ blits[2] = [flag |-> "O ", eco2 |-> eco2, tvoc |-> tvoc]
    /\ blits[2].eco2 = blits[1].eco2 /\ blits[2].tvoc = blits[1].tvoc
    /\ i2cLog[Len(i2cLog)].addr = STATUS_ADDR

(***************************************************************************)
(* C17: get_field returns the bits low..high of the register value,        *)
(* right-justified; for the status byte 0x90 it reports firmware mode      *)
(* (bit 7) = 1, application valid (bit 4) = 1, data ready (bit 3) = 0 and  *)
(* error (bit 0) = 0.                                                      *)
(***************************************************************************)
BitsOf(regval, field) == (regval \div Pow2(field[2])) % Pow2(FieldWidth(field))

C17_StatusDecode ==
    cOp = "get_field" =>
       /\ cOut.val = BitsOf(cRegval, cField)
       /\ cRegval = 144 =>
             /\ cField = STATUS_REG_FW_MODE_FIELD => cOut.val = 1
             /\ cField = STATUS_REG_APP_VALID_FIELD => cOut.val = 1
             /\ cField = STATUS_REG_DATA_READY_FIELD => cOut.val = 0
             /\ cField = STATUS_REG_ERROR_FIELD => cOut.val = 0

\* the data-ready field of the status byte 0x90 has been decoded
C17_Witness ==
    /\ cOp = "get_field"
    /\ cRegval = 144
    /\ cField = STATUS_REG_DATA_READY_FIELD
    /\ cOut.val = 0

\* C17 as stated: for the status byte 0x90, get_field reports firmware mode
\* (bit 7) = 1, data ready (bit 3) = 1 and error (bit 0) = 0.
C17_StatusDecodeAsStated ==
    (cOp = "get_field" /\ cRegval = 144) =>
       /\ cField = STATUS_REG_FW_MODE_FIELD => cOut.val = 1
       /\ cField = STATUS_REG_DATA_READY_FIELD => cOut.val = 1
       /\ cField = STATUS_REG_ERROR_FIELD => cOut.val = 0

(***************************************************************************)
(* C18: after a poll that has read the 4-byte measurement block b0 b1 b2   *)
(* b3 (data-ready set, error clear), the cached pair is eCO2 = b0*256 + b1 *)
(* and TVOC = b2*256 + b3, so 00 C8 00 32 gives (200, 50), and the text    *)
(* blitted in that poll shows both values.                                 *)
(***************************************************************************)
IsMeasRead(e) == e.ev = "read" /\ e.addr = ALG_RESULT_DATA_ADDR

\* the last poll has read a measurement block
PollReadMeas ==
    /\ Len(i2cLog) >= 2
    /\ IsMeasRead(i2cLog[Len(i2cLog)])
    /\ IsStatusRead(i2cLog[Len(i2cLog) - 1])

C18_MeasurementDecode ==
    PollReadMeas =>
       LET b == i2cLog[Len(i2cLog)].data
           status == i2cLog[Len(i2cLog) - 1].data[1]
       IN  /\ get_field(status, STATUS_REG_DATA_READY_FIELD) = 1
           /\ get_field(status, STATUS_REG_ERROR_FIELD) = 0
           /\ eco2 = b[1] * 256 + b[2]
           /\ tvoc = b[3] * 256 + b[4]
           /\ b = <<0, 200, 0, 50>> => (eco2 = 200 /\ tvoc = 50)
           /\ blits # <<>>
           /\ blits[Len(blits)] = [flag |-> "N ", eco2 |-> eco2, tvoc |-> tvoc]
           /\ text = blits[Len(blits)]

\* a poll has read the block 00 C8 00 32 and shown 200 and 50
C18_Witness ==
    /\ PollReadMeas
    /\ i2cLog[Len(i2cLog)].data = <<0, 200, 0, 50>>
    /\ text = [flag |-> "N ", eco2 |-> 200, tvoc |-> 50]
    /\ Len(blits) = polls

(***************************************************************************)
(* C19: a status read that shows the error bit set, whichever it is (the   *)
(* first status read of the start-up, the second, or the one of a poll),   *)
(* invalidates the session at once: the operation fails, and no            *)
(* application-start write, measurement-mode write or measurement read     *)
(* follows it.                                                             *)
(***************************************************************************)
IsErrorStatus(e) ==
    IsStatusRead(e) /\ get_field(e.data[1], STATUS_REG_ERROR_FIELD) = 1

C19_ErrorBitInvalidatesSession ==
    \A i \in 1 .. Len(i2cLog) :
       IsErrorStatus(i2cLog[i]) =>
          /\ sState = "failed"
          /\ \A j \in i + 1 .. Len(i2cLog) :
                /\ ~IsWriteTo(i2cLog[j], APP_START_ADDR)
                /\ ~IsWriteTo(i2cLog[j], MEAS_MODE_ADDR)
                /\ ~IsMeasRead(i2cLog[j])

(***************************************************************************)
(* C20: when the status read after the application start violates the      *)
(* check, by the firmware-mode bit being clear or by the error bit being   *)
(* set, the start-up reads the error register next and then fails, and the *)
(* measurement mode is never written.                                      *)
(***************************************************************************)
SecondStatusViolates ==
    /\ SecondStatusRead # 0
    /\ \/ get_field(i2cLog[SecondStatusRead].data[1], STATUS_REG_FW_MODE_FIELD) = 0
       \/ get_field(i2cLog[SecondStatusRead].data[1], STATUS_REG_ERROR_FIELD) = 1

C20_ViolationDecodesThenFails ==
    SecondStatusViolates =>
       /\ sState = "failed"
       /\ Len(i2cLog) = SecondStatusRead + 1
       /\ i2cLog[Len(i2cLog)].ev = "read"
       /\ i2cLog[Len(i2cLog)].addr = ERROR_ID_ADDR
       /\ \A j \in 1 .. Len(i2cLog) : ~IsWriteTo(i2cLog[j], MEAS_MODE_ADDR)

(***************************************************************************)
(* C16: whichever statement of the try block raises, also one before the   *)
(* sensor bus is opened, the program exits with the cleanup run to its     *)
(* end: the status pin low, the display bus handle and the sensor bus      *)
(* handle closed, and the GPIO state reset.                                *)
(***************************************************************************)
C16_CleanupRunsToCompletion ==
    (pc = "exit" /\ "status_led" \in bound) =>
       /\ statusLed = 0
       /\ ~spiOpen
       /\ ~i2cOpen
       /\ ~gpioSetup
       /\ exc # "NameError"

(***************************************************************************)
(* C13: in a tree of RectWidget only, when the root is drawn twice with    *)
(* nothing constructed or assigned in between, the first draw issues       *)
(* exactly one fill_rectangle for each widget that was dirty before it,    *)
(* which is every widget when the tree has not been drawn before, and the  *)
(* second draw issues none.                                                *)
(***************************************************************************)
\* how many times the log of a draw holds a call of kind ev for widget id
Calls(log, ev, id) ==
    Cardinality({ i \in 1 .. Len(log) : log[i].ev = ev /\ log[i].node = id })

AllRectWidget == \A id \in 1 .. Len(nodes) : nodes[id].kind = "rect"

\* the k-th and the next draw of the root, with no mutation in between
DrawnTwice(k) ==
    /\ k + 1 <= Len(draws)
    /\ ~draws[k + 1].mutated

C13_DirtyFlagIdempotence ==
    AllRectWidget =>
       \A k \in 1 .. Len(draws) :
          DrawnTwice(k) =>
             /\ draws[k].raised = "" /\ draws[k + 1].raised = ""
             /\ k = 1 => draws[k].dirty = 1 .. draws[k].size
             /\ \A id \in 1 .. draws[k].size :
                   /\ Calls(draws[k].log, "fill_rectangle", id)
                         = (IF id \in draws[k].dirty THEN 1 ELSE 0)
                   /\ Calls(draws[k + 1].log, "fill_rectangle", id) = 0

\* a root with a child and a grandchild, all RectWidget, drawn twice: three
\* fills in the first draw
C13_Witness ==
    /\ AllRectWidget
    /\ Len(nodes) = 3 /\ nodes[2].parent = 1 /\ nodes[3].parent = 2
    /\ Len(draws) = 2 /\ DrawnTwice(1)
    /\ \A id \in 1 .. 3 : Calls(draws[1].log, "fill_rectangle", id) = 1

(***************************************************************************)
(* C14: a draw of the root invokes draw exactly once on every widget of    *)
(* the tree, whatever the class of the parents (RectWidget, TextLabel or   *)
(* CO2Widget) and whether they are dirty or not.                           *)
(***************************************************************************)
C14_DrawVisitsEveryNode ==
    \A k \in 1 .. Len(draws) :
       \A id \in 1 .. draws[k].size : Calls(draws[k].log, "draw", id) = 1

(***************************************************************************)
(* C15: after any constructions, text assignments and draws, every widget  *)
(* has x0 <= x1 and y0 <= y1, its (x0, y0) is its parent's (x0, y0) plus   *)
(* its relative offsets (the offsets themselves without a parent), it is   *)
(* exactly once in the child list of its parent, which holds no widget of  *)
(* another parent, so that no child is ever removed; and a widget just     *)
(* constructed is dirty.                                                   *)
(***************************************************************************)
Occurrences(seq, v) == Cardinality({ i \in 1 .. Len(seq) : seq[i] = v })

C15_TreeInvariants ==
    /\ \A id \in 1 .. Len(nodes) :
          LET n == nodes[id]
          IN  /\ n.x0 <= n.x1 /\ n.y0 <= n.y1
              /\ n.x0 = (IF n.parent # 0 THEN nodes[n.parent].x0 ELSE 0) + n.relx
              /\ n.y0 = (IF n.parent # 0 THEN nodes[n.parent].y0 ELSE 0) + n.rely
              /\ n.parent # 0 =>
                    /\ n.parent \in 1 .. Len(nodes)
                    /\ Occurrences(nodes[n.parent].children, id) = 1
              /\ \A i \in 1 .. Len(n.children) :
                    /\ n.children[i] \in 1 .. Len(nodes)
                    /\ nodes[n.children[i]].parent = id
    /\ (tLast.op = "construct" /\ tLast.node # 0) =>
          /\ tLast.node = Len(nodes)
          /\ nodes[tLast.node].need_redraw

\* a grandchild away from its parent's origin, in a tree that has seen a
\* text assignment and a draw
C15_Witness ==
    /\ Len(nodes) = 3 /\ nodes[2].parent = 1 /\ nodes[3].parent = 2
    /\ nodes[3].x0 = 3 /\ nodes[3].y0 = 24 /\ nodes[2].x0 = 2
    /\ \E id \in 1 .. 3 : nodes[id].text \in Texts
    /\ Len(draws) >= 1

(***************************************************************************)
(* C21: the fill_rectangle a dirty RectWidget issues when drawn covers the *)
(* widget's own bounds, origin (x0, y0) with the widget's own width and    *)
(* height, wherever the widget is, also away from (0, 0); and the widget   *)
(* is not dirty after the draw.                                            *)
(***************************************************************************)
C21_FillCoversOwnBounds ==
    \A k \in 1 .. Len(draws) :
       \A i \in 1 .. Len(draws[k].log) :
          LET e == draws[k].log[i]
              n == nodes[e.node]
          IN  e.ev = "fill_rectangle" =>
                 /\ e.x = n.x0 /\ e.y = n.y0
                 /\ e.width = n.width /\ e.height = n.height
                 /\ e.width = n.x1 - n.x0 /\ e.height = n.y1 - n.y0
                 /\ (k = Len(draws) /\ tLast.op = "draw") => ~n.need_redraw

(***************************************************************************)
(* C22: an assignment to the text of a TextLabel or CO2Widget sets the     *)
(* dirty flag of the widget, need_redraw, the flag RectWidget.draw reads   *)
(* and clears, and no flag of its own beside it; after a text assignment   *)
(* the widget is dirty.                                                    *)
(***************************************************************************)
\* the widgets whose text has been assigned: every TextLabel and CO2Widget,
\* by its constructor at the latest
TextAssigned(id) == nodes[id].kind \in {"label", "co2"}

C22_TextSetsBaseDirtyFlag ==
    \A id \in 1 .. Len(nodes) :
       TextAssigned(id) =>
          /\ nodes[id].need_redraw
          /\ ~nodes[id]._need_redraw

(***************************************************************************)
(* C23: over any sequence of write and read calls of SpiWrapper, the       *)
(* command byte of a call is put on the bus with the data/command pin low, *)
(* every data byte, written or read, with the pin high, and within a call  *)
(* the command byte comes before the data bytes.                           *)
(***************************************************************************)
C23_CommandDataFraming ==
    \A id \in 1 .. Len(spiCalls) :
       LET call == spiCalls[id]
           b == BusOf(id)
       IN  \A k \in 1 .. Len(b) :
              IF call.command # NoCommand /\ k = 1
              THEN /\ b[k].kind = "cmd"
                   /\ b[k].out = call.command
                   /\ b[k].dc = 0
              ELSE /\ b[k].kind \in {"data", "read"}
                   /\ b[k].dc = 1

\* a write with a command and data and a read with a command have returned:
\* the bus has carried command bytes, written data and read data
C23_Witness ==
    /\ spiPc = "idle"
    /\ \E i, j \in 1 .. Len(spiDone) :
          /\ spiDone[i].op = "write" /\ spiDone[j].op = "read"
          /\ Len(BusOf(spiDone[i].id)) >= 2 /\ Len(BusOf(spiDone[j].id)) >= 2
          /\ BusOf(spiDone[i].id)[1].dc = 0 /\ BusOf(spiDone[i].id)[2].dc = 1
          /\ BusOf(spiDone[j].id)[1].dc = 0 /\ BusOf(spiDone[j].id)[2].dc = 1

(***************************************************************************)
(* C24: a widget whose constructor raised, on a geometry assertion or on a *)
(* failed sensor start-up in CO2Widget, is not part of the tree: it is in  *)
(* no child list, and no draw of the root invokes draw on it.              *)
(***************************************************************************)
C24_FailedNodeNotInTree ==
    /\ \A id \in 1 .. Len(nodes) :
          \A i \in 1 .. Len(nodes[id].children) : nodes[nodes[id].children[i]].built
    /\ \A k \in 1 .. Len(draws) :
          \A i \in 1 .. Len(draws[k].log) :
             draws[k].log[i].ev = "draw" => nodes[draws[k].log[i].node].built

====
